---- MODULE Spec2Model ----
(***************************************************************************)
(* A model of the recursive research orchestrator (deepResearch) and of    *)
(* the per-result summary selection it performs.                           *)
(*                                                                         *)
(* Promises are modelled by the state of the task that owns them.  An      *)
(* invocation of deepResearch is named by the path of branch indices that  *)
(* leads to it (<<>> is the top-level call); the branch i of invocation q  *)
(* is named Append(q, i), and the recursive invocation made by a branch    *)
(* carries the name of that branch.                                        *)
(*                                                                         *)
(* Text (titles, descriptions, markdown, summaries) is a sequence of       *)
(* one-character strings, so that slice, trim and replace are computed.    *)
(***************************************************************************)
EXTENDS Integers, Sequences, FiniteSets, TLC

VARIABLES
    limitN,     \* the value of ConcurrencyLimit for this run
    world,      \* what the search service answers (page templates)
    inv,        \* invocations of deepResearch, by path
    br,         \* query branches (the tasks given to limit), by path
    snap,       \* the last snapshot the progress observer received
    sm,         \* one search result going through the summary selection
    tp          \* one text going through trimPrompt

vars == <<limitN, world, inv, br, snap, sm, tp>>

----------------------------------------------------------------------------
(* Bounds of the model *)

MaxBreadth == 2
MaxDepth == 2
MaxLimit == 2
\* how many queries the query proposer returns in one run, over all levels
MaxQueries == 3
\* how far beyond the 150-character cut the generated texts reach
MaxExtra == 1
\* how far beyond the 140-character floor the texts given to trimPrompt reach
MaxTrimExtra == 10
\* by how many tokens, at most, a text exceeds the budget it is trimmed to
MaxOverflow == 4
\* the breadth, the depth and the queries of the runs of the default gate
DeepBreadth == 3
DeepDepth == 3
DeepQueries == 4

(* Program constants *)

\* item.metadata.description.slice(0, 150), item.markdown.slice(0, 150)
SummaryCut == 150
\* const MinChunkSize = 140
MinChunkSize == 140

----------------------------------------------------------------------------
(* Text *)

Min(a, b) == IF a <= b THEN a ELSE b

\* n copies of the character c
Rep(c, n) == [i \in 1..n |-> c]

\* the characters String.prototype.trim removes (those the model uses)
WhiteSpace == {" ", "\n"}

\* s.trim() === ''
IsBlank(s) == \A i \in 1..Len(s) : s[i] \in WhiteSpace

\* s.slice(0, n)
Slice(s, n) == SubSeq(s, 1, Min(Len(s), n))

\* s.replace(/\n/g, ' ')
FlattenNewlines(s) == [i \in 1..Len(s) |-> IF s[i] = "\n" THEN " " ELSE s[i]]

Ellipsis == <<".", ".", ".">>

\* the fixed "no summary available" text
Sentinel == <<"wu", "ke", "yong", "zhai", "yao">>

\* an optional field of a search result
None == [has |-> FALSE, val |-> <<>>]
Some(s) == [has |-> TRUE, val |-> s]

----------------------------------------------------------------------------
(* Summary selection for one search result (newUrlsPromises) *)

\* a search result: url is "" when the result has none
Item(url, title, description, markdown) ==
    [url |-> url, title |-> title, description |-> description,
     markdown |-> markdown]

\* JavaScript truthiness of an optional text followed by the non-blank test:
\* x && x.trim() !== ''
NonBlank(f) == f.has /\ Len(f.val) > 0 /\ ~IsBlank(f.val)

\* if (!item.url) return null
HasUrl(item) == item.url # ""

\* the description tried before the title
SummaryArmDescriptionFirst(item) ==
    IF NonBlank(item.description) THEN "description"
    ELSE IF NonBlank(item.title) THEN "title"
    ELSE IF item.markdown.has /\ Len(item.markdown.val) > 0 THEN "ai"
    ELSE "none"

\* which arm of the if / else-if chain an item takes
SummaryArm(item) ==
    IF NonBlank(item.title) THEN "title"
    ELSE IF NonBlank(item.description) THEN "description"
    ELSE IF item.markdown.has /\ Len(item.markdown.val) > 0 THEN "ai"
    ELSE "none"

\* description.slice(0, 150), plus '...' when description.length > 150
DescriptionSummary(d) ==
    IF Len(d) > SummaryCut THEN Slice(d, SummaryCut) \o Ellipsis
    ELSE Slice(d, SummaryCut)

\* markdown.slice(0, 150).replace(/\n/g, ' '), plus '...' when longer
MarkdownFallback(md) ==
    IF Len(md) > SummaryCut
    THEN FlattenNewlines(Slice(md, SummaryCut)) \o Ellipsis
    ELSE FlattenNewlines(Slice(md, SummaryCut))

\* the guard left out
EnsureSummaryNone(s) == s

\* if (!summary || summary.trim() === '') summary = sentinel
EnsureSummary(s) == IF Len(s) = 0 \/ IsBlank(s) THEN Sentinel ELSE s

\* the summary of an item that needs no generation call
DirectSummary(item) ==
    EnsureSummary(
        CASE SummaryArm(item) = "title" -> item.title.val
          [] SummaryArm(item) = "description" ->
                DescriptionSummary(item.description.val)
          [] OTHER -> <<>>)

\* the outcome of the summary generation call: a text, or a failure
AiOk(s) == [ok |-> TRUE, val |-> s]
AiFail == [ok |-> FALSE, val |-> <<>>]

\* the summary once the generation call has settled (try / catch)
AiSummary(item, outcome) ==
    EnsureSummary(IF outcome.ok THEN outcome.val
                  ELSE MarkdownFallback(item.markdown.val))

----------------------------------------------------------------------------
(* Paths, results, progress *)

Parent(p) == SubSeq(p, 1, Len(p) - 1)
Last(p) == p[Len(p)]

\* { learnings: [], visitedUrls: [] }
EmptyResult == [learnings |-> <<>>, visitedUrls |-> <<>>]

\* every value kept, repeated or not
DedupNone(s) == s

\* [...new Set(s)]: the first occurrence of every value, in order.  A visited
\* source carries the identity of its object (field id), so two objects with
\* the same url and summary are two values, as they are for a JavaScript Set.
Dedup(s) ==
    LET F[i \in 0..Len(s)] ==
            IF i = 0 THEN <<>>
            ELSE IF \E j \in 1..(i - 1) : s[j] = s[i] THEN F[i - 1]
            ELSE Append(F[i - 1], s[i])
    IN  F[Len(s)]

\* the progress object a deepResearch invocation creates
NewProgress(breadth, depth) ==
    [currentDepth |-> depth, totalDepth |-> depth,
     currentBreadth |-> breadth, totalBreadth |-> breadth,
     currentQuery |-> 0,
     totalQueries |-> 0, completedQueries |-> 0]

\* Object.assign(progress, update)
Assign(progress, update) ==
    [f \in DOMAIN progress |->
        IF f \in DOMAIN update THEN update[f] ELSE progress[f]]

NoSnapshot == [has |-> FALSE, inv |-> <<>>, p |-> NewProgress(0, 0)]

\* onProgress?.(progress): the observer sees the invocation's progress object
Deliver(q, progress) == [has |-> TRUE, inv |-> q, p |-> progress]

\* an invocation at the point where it awaits generateSerpQueries
NewInvocation(breadth, depth, learnings, visitedUrls) ==
    [status |-> "proposing", breadth |-> breadth, depth |-> depth,
     learnings |-> learnings, visitedUrls |-> visitedUrls,
     nq |-> 0, progress |-> NewProgress(breadth, depth),
     result |-> EmptyResult]

\* the proposer's queries taken as they come
SliceQueriesAll(m, numQueries) == m

\* res.object.queries.slice(0, numQueries), as a number of queries
SliceQueries(m, numQueries) == Min(m, numQueries)

\* Math.ceil(breadth / 2)
NewBreadth(breadth) == (breadth + 1) \div 2

\* the depth passed on unchanged
NewDepthSame(depth) == depth

\* depth - 1
NewDepth(depth) == depth - 1

\* the count left as it is
NextCompletedSame(progress) == progress.completedQueries

\* the count of the fresh object instead of the current one
NextCompletedStale(progress) == 1

\* completedQueries: progress.completedQueries + 1
NextCompleted(progress) == progress.completedQueries + 1

----------------------------------------------------------------------------
(* The concurrency gate of one invocation: limit = pLimit(ConcurrencyLimit) *)

BranchesOf(b, q) == {p \in DOMAIN b : Len(p) = Len(q) + 1 /\ Parent(p) = q}

\* a task the gate has started and whose promise has not settled
InFlightStates == {"search", "summarize", "extract", "recursing"}

ActiveCount(b, q) ==
    Cardinality({p \in BranchesOf(b, q) : b[p].state \in InFlightStates})

\* one gate shared by every invocation of the run
GateCountShared(b, q) ==
    Cardinality({p \in DOMAIN b : b[p].state \in InFlightStates})

\* the gate whose slots a branch of invocation q takes
GateCount(b, q) == ActiveCount(b, q)

\* a gate that lets one task too many through
StartNextOneMore(b, q) ==
    LET queued == {p \in BranchesOf(b, q) : b[p].state = "queued"}
    IN  IF queued = {} \/ GateCount(b, q) > limitN THEN b
        ELSE LET head == CHOOSE p \in queued :
                            \A o \in queued : Last(p) <= Last(o)
             IN  [b EXCEPT ![head].state = "search",
                           ![head].searches = b[head].searches + 1]

\* p-limit's next(): start the head of the queue when a slot is free; the
\* task then calls firecrawl.search
StartNext(b, q) ==
    LET queued == {p \in BranchesOf(b, q) : b[p].state = "queued"}
    IN  IF queued = {} \/ GateCount(b, q) >= limitN THEN b
        ELSE LET head == CHOOSE p \in queued :
                            \A o \in queued : Last(p) <= Last(o)
             IN  [b EXCEPT ![head].state = "search",
                           ![head].searches = b[head].searches + 1]

\* serpQueries.map(q => limit(...)): every task is enqueued in order
RECURSIVE StartAll(_, _)
StartAll(b, q) ==
    IF StartNext(b, q) = b THEN b ELSE StartAll(StartNext(b, q), q)

\* a task of the gate before it is started
NewBranch ==
    [state |-> "queued", slots |-> <<>>, failed |-> "none",
     searches |-> 0, result |-> EmptyResult]

----------------------------------------------------------------------------
(* What the external services answer *)

Example == <<"E", "x", "a", "m", "p", "l", "e">>

TitledPage == Item("u1", Some(Example), None, Some(<<"a", "\n", "b">>))
NoUrlPage == Item("", Some(Example), None, Some(<<"a">>))
MarkdownPage == Item("u2", None, None, Some(<<"a", "\n", "b">>))

\* a value an external call rejects with, or the observer throws: undefined
\* or null (nullish), or a value whose message property is absent, the empty
\* string, a non-empty string without 'Timeout', a string with 'Timeout', a
\* falsy number (0, NaN) or a truthy number (42, -1)
Thrown(nullish, message) == [nullish |-> nullish, message |-> message]

ThrownValues ==
    {Thrown(TRUE, "absent"), Thrown(FALSE, "absent"),
     Thrown(FALSE, "empty string"), Thrown(FALSE, "string"),
     Thrown(FALSE, "Timeout string"), Thrown(FALSE, "falsy number"),
     Thrown(FALSE, "truthy number")}

\* e.message as the left operand of &&: undefined, '', 0 and NaN are falsy
MessageTruthy(message) ==
    message \in {"string", "Timeout string", "truthy number"}

\* e.message has the method includes
MessageIsString(message) ==
    message \in {"empty string", "string", "Timeout string"}

\* the Error objects: an error, whose message is a string, and a timeout,
\* whose message holds 'Timeout'
Errors == {Thrown(FALSE, "string"), Thrown(FALSE, "Timeout string")}

\* the services of one run: result.data of firecrawl.search, the same for
\* every query, how the summary generation call of the run settles, how
\* many queries the proposer returns over the run, and the values the calls
\* of the run (and its observer) reject with when they fail
World(pages, ai) ==
    [pages |-> pages, ai |-> ai, queries |-> MaxQueries, thrown |-> Errors]

\* the same services, failing with any value
AnyThrown(w) == [w EXCEPT !.thrown = ThrownValues]

Worlds ==
    {World(<<TitledPage>>, AiFail),
     AnyThrown(World(<<TitledPage>>, AiFail)),
     World(<<TitledPage, NoUrlPage, MarkdownPage>>, AiOk(<<"S">>)),
     World(<<TitledPage, NoUrlPage, MarkdownPage>>, AiFail)}

\* summaryResult.object.summary, or the call throws
AiOutcomes == {AiOk(<<"S">>), AiOk(<<>>), AiOk(<<" ">>), AiFail}

\* how many queries the proposer may return to invocation q: it may return
\* one more than asked for, and no more than the run's budget of queries
ProposerAnswers(q) ==
    0..Min(inv[q].breadth + 1, world.queries - Cardinality(DOMAIN br))

\* newLearnings.learnings for the i-th query of an invocation
LearningsFor(i) == << <<"learning", i>> >>

----------------------------------------------------------------------------
(* One query branch: the async function given to limit *)

Pending == [kind |-> "pending", summary |-> <<>>]
Dropped == [kind |-> "null", summary |-> <<>>]
Ready(s) == [kind |-> "ready", summary |-> s]

\* result.data.map(async item => ...) up to the generation call
FirstSlots(items) ==
    [k \in 1..Len(items) |->
        IF ~HasUrl(items[k]) THEN Dropped
        ELSE IF SummaryArm(items[k]) = "ai" THEN Pending
        ELSE Ready(DirectSummary(items[k]))]

AnyPending(slots) == \E k \in 1..Len(slots) : slots[k].kind = "pending"

\* compact(await Promise.all(newUrlsPromises)): one object per kept result
NewUrls(p, items, slots) ==
    LET F[i \in 0..Len(slots)] ==
            IF i = 0 THEN <<>>
            ELSE IF slots[i].kind = "null" THEN F[i - 1]
            ELSE Append(F[i - 1], [id |-> <<p, i>>, url |-> items[i].url,
                                   summary |-> slots[i].summary])
    IN  F[Len(slots)]

\* what the branch found, without what the invocation was given
AccumulateNewOnly(old, new) == new

\* [...learnings, ...newLearnings.learnings] and
\* [...visitedUrls, ...newUrls]
Accumulate(old, new) == old \o new

\* e.message && e.message.includes('Timeout') throws a TypeError: e.message
\* of undefined or null cannot be read, and a truthy message that is not a
\* string has no includes; a falsy message stops the && before the call
GuardThrows(e) ==
    \/ e.nullish
    \/ MessageTruthy(e.message) /\ ~MessageIsString(e.message)

\* the TypeError of the guard leaves the catch block and the task: the
\* task's promise rejects
FailedBranchRethrow(b, failedCall) ==
    [b EXCEPT !.state = "rejected", !.failed = failedCall, !.slots = <<>>]

\* the catch block, entered with the value e: it returns the empty result
\* for the branch unless its guard throws
FailedBranch(b, failedCall, e) ==
    IF GuardThrows(e) THEN FailedBranchRethrow(b, failedCall)
    ELSE [b EXCEPT !.state = "done", !.failed = failedCall, !.slots = <<>>,
                   !.result = EmptyResult]

\* results.flatMap(r => r.learnings) and results.flatMap(r => r.visitedUrls)
FlatResults(b, q, n) ==
    LET F[i \in 0..n] ==
            IF i = 0 THEN EmptyResult
            ELSE [learnings |->
                      F[i - 1].learnings \o b[Append(q, i)].result.learnings,
                  visitedUrls |->
                      F[i - 1].visitedUrls \o b[Append(q, i)].result.visitedUrls]
    IN  F[n]

\* the value deepResearch returns
Aggregate(b, q, n) ==
    [learnings |-> Dedup(FlatResults(b, q, n).learnings),
     visitedUrls |-> Dedup(FlatResults(b, q, n).visitedUrls)]

----------------------------------------------------------------------------
(* The orchestrator: deepResearch *)

SmIdle == [pc |-> "idle", item |-> Item("", None, None, None),
           aiCalls |-> 0, ai |-> AiFail, kept |-> FALSE, summary |-> <<>>]

TpIdle == [pc |-> "idle", tok |-> "chars", split |-> "chars", orig |-> <<>>,
           budget |-> 0, text |-> <<>>, result |-> <<>>, floor |-> FALSE,
           net |-> FALSE, run |-> 0, first |-> <<>>]

Init ==
    /\ limitN \in 1..MaxLimit
    /\ world \in Worlds
    /\ \E breadth \in 1..MaxBreadth, depth \in 1..MaxDepth :
          inv = (<<>> :> NewInvocation(breadth, depth, <<>>, <<>>))
    /\ br = [p \in {} |-> NewBranch]
    /\ snap = NoSnapshot
    /\ sm = SmIdle
    /\ tp = TpIdle

\* generateSerpQueries returns m queries: slice to breadth, report, and give
\* one task per query to the gate
ProposeOk(q, m) ==
    /\ inv[q].status = "proposing"
    /\ LET n == SliceQueries(m, inv[q].breadth)
           progress == Assign(inv[q].progress,
                              [totalQueries |-> n,
                               currentQuery |-> IF n > 0 THEN 1 ELSE 0])
           tasks == {Append(q, i) : i \in 1..n}
       IN  /\ inv' = [inv EXCEPT ![q].status = "running", ![q].nq = n,
                                 ![q].progress = progress]
           /\ snap' = Deliver(q, progress)
           /\ br' = StartAll([p \in DOMAIN br \cup tasks |->
                                 IF p \in tasks THEN NewBranch ELSE br[p]], q)
    /\ UNCHANGED <<limitN, world, sm, tp>>

\* generateSerpQueries throws: the await is outside every try block
ProposeFail(q) ==
    /\ inv[q].status = "proposing"
    /\ inv' = [inv EXCEPT ![q].status = "rejected"]
    /\ UNCHANGED <<limitN, world, br, snap, sm, tp>>

\* firecrawl.search returns: start the summary of every result
SearchOk(p) ==
    /\ br[p].state = "search"
    /\ LET slots == FirstSlots(world.pages)
       IN  br' = [br EXCEPT ![p].slots = slots,
                            ![p].state = IF AnyPending(slots) THEN "summarize"
                                         ELSE "extract"]
    /\ UNCHANGED <<limitN, world, inv, snap, sm, tp>>

\* firecrawl.search rejects with e: the catch block ends the task
SearchFail(p, e) ==
    /\ br[p].state = "search"
    /\ br' = StartNext([br EXCEPT ![p] = FailedBranch(br[p], "search", e)],
                       Parent(p))
    /\ UNCHANGED <<limitN, world, inv, snap, sm, tp>>

\* the summary generation call of result k settles; after the last one the
\* branch calls processSerpResult
SummaryReturn(p, k, outcome) ==
    /\ br[p].state = "summarize"
    /\ k \in 1..Len(br[p].slots)
    /\ br[p].slots[k].kind = "pending"
    /\ LET slots == [br[p].slots EXCEPT
                        ![k] = Ready(AiSummary(world.pages[k], outcome))]
       IN  br' = [br EXCEPT ![p].slots = slots,
                            ![p].state = IF AnyPending(slots) THEN "summarize"
                                         ELSE "extract"]
    /\ UNCHANGED <<limitN, world, inv, snap, sm, tp>>

\* processSerpResult returns: report, then recurse or return
ExtractOk(p) ==
    /\ br[p].state = "extract"
    /\ LET q == Parent(p)
           newBreadth == NewBreadth(inv[q].breadth)
           newDepth == NewDepth(inv[q].depth)
           allLearnings == Accumulate(inv[q].learnings, LearningsFor(Last(p)))
           allUrls == Accumulate(inv[q].visitedUrls,
                                 NewUrls(p, world.pages, br[p].slots))
           done == NextCompleted(inv[q].progress)
       IN  IF newDepth > 0
           THEN LET progress == Assign(inv[q].progress,
                                    [currentDepth |-> newDepth,
                                     currentBreadth |-> newBreadth,
                                     completedQueries |-> done,
                                     currentQuery |-> Last(p)])
                IN  /\ snap' = Deliver(q, progress)
                    /\ inv' = [x \in DOMAIN inv \cup {p} |->
                                 IF x = p
                                 THEN NewInvocation(newBreadth, newDepth,
                                                    allLearnings, allUrls)
                                 ELSE IF x = q
                                 THEN [inv[q] EXCEPT !.progress = progress]
                                 ELSE inv[x]]
                    /\ br' = [br EXCEPT ![p].state = "recursing", ![p].slots = <<>>]
           ELSE LET progress == Assign(inv[q].progress,
                                    [currentDepth |-> 0,
                                     completedQueries |-> done,
                                     currentQuery |-> Last(p)])
                IN  /\ snap' = Deliver(q, progress)
                    /\ inv' = [inv EXCEPT ![q].progress = progress]
                    /\ br' = StartNext(
                                [br EXCEPT ![p].state = "done", ![p].slots = <<>>,
                                           ![p].result =
                                               [learnings |-> allLearnings,
                                                visitedUrls |-> allUrls]], q)
    /\ UNCHANGED <<limitN, world, sm, tp>>

\* processSerpResult rejects with e (error or timeout)
ExtractFail(p, e) ==
    /\ br[p].state = "extract"
    /\ br' = StartNext([br EXCEPT ![p] = FailedBranch(br[p], "extract", e)],
                       Parent(p))
    /\ UNCHANGED <<limitN, world, inv, snap, sm, tp>>

\* return deepResearch(...): the task's promise takes the outcome of the
\* recursive invocation; the promise is returned without await, so the
\* enclosing catch never sees its rejection
ChildSettled(p) ==
    /\ br[p].state = "recursing"
    /\ inv[p].status \in {"resolved", "rejected"}
    /\ br' = StartNext(
                [br EXCEPT ![p].state = IF inv[p].status = "resolved"
                                        THEN "done" ELSE "rejected",
                           ![p].result = inv[p].result], Parent(p))
    /\ UNCHANGED <<limitN, world, inv, snap, sm, tp>>

\* await Promise.all(...): rejects with the first task that rejects,
\* otherwise resolves when every task has, and the aggregate is returned
InvSettle(q) ==
    /\ inv[q].status = "running"
    /\ LET tasks == BranchesOf(br, q)
       IN  \/ /\ \E p \in tasks : br[p].state = "rejected"
              /\ inv' = [inv EXCEPT ![q].status = "rejected"]
           \/ /\ \A p \in tasks : br[p].state = "done"
              /\ inv' = [inv EXCEPT ![q].status = "resolved",
                                    ![q].result = Aggregate(br, q, inv[q].nq)]
    /\ UNCHANGED <<limitN, world, br, snap, sm, tp>>

Next ==
    \/ \E q \in DOMAIN inv : \E m \in ProposerAnswers(q) : ProposeOk(q, m)
    \/ \E q \in DOMAIN inv : ProposeFail(q)
    \/ \E p \in DOMAIN br : SearchOk(p)
    \/ \E p \in DOMAIN br : \E e \in world.thrown : SearchFail(p, e)
    \/ \E p \in DOMAIN br : \E k \in 1..Len(world.pages) : \E o \in {world.ai} :
          SummaryReturn(p, k, o)
    \/ \E p \in DOMAIN br : ExtractOk(p)
    \/ \E p \in DOMAIN br : \E e \in world.thrown : ExtractFail(p, e)
    \/ \E p \in DOMAIN br : ChildSettled(p)
    \/ \E q \in DOMAIN inv : InvSettle(q)

Spec == Init /\ [][Next]_vars

\* the runs whose searches return a titled page, a page without url and a
\* page that needs a generated summary, the summary call failing with an
\* Error, and the runs of the default gate whose calls fail with any value
FairInit ==
    /\ \/ /\ limitN \in 1..MaxLimit
          /\ world = World(<<TitledPage, NoUrlPage, MarkdownPage>>, AiFail)
       \/ /\ limitN = 1
          /\ world = AnyThrown(World(<<TitledPage>>, AiFail))
    /\ \E breadth \in 1..MaxBreadth, depth \in 1..MaxDepth :
          inv = (<<>> :> NewInvocation(breadth, depth, <<>>, <<>>))
    /\ br = [p \in {} |-> NewBranch]
    /\ snap = NoSnapshot
    /\ sm = SmIdle
    /\ tp = TpIdle

\* every external call returns or fails, and every promise reaction runs
FairSpec == FairInit /\ [][Next]_vars /\ WF_vars(Next)

----------------------------------------------------------------------------
(* The default gate: ConcurrencyLimit = 1, on a tree three levels deep *)

DeepInit ==
    /\ limitN = 1
    /\ world = [AnyThrown(World(<<TitledPage, NoUrlPage, MarkdownPage>>,
                                AiFail))
                    EXCEPT !.queries = DeepQueries]
    /\ \E breadth \in 1..DeepBreadth, depth \in 1..DeepDepth :
          inv = (<<>> :> NewInvocation(breadth, depth, <<>>, <<>>))
    /\ br = [p \in {} |-> NewBranch]
    /\ snap = NoSnapshot
    /\ sm = SmIdle
    /\ tp = TpIdle

DeepSpec == DeepInit /\ [][Next]_vars

----------------------------------------------------------------------------
(* The observer raising: onProgress?.(progress) is called with no try block
   of its own *)

\* onProgress throws in the report that follows the query proposal: the call
\* is outside the try blocks, the invocation rejects before any task exists
ProposeOkThrow(q, m) ==
    /\ inv[q].status = "proposing"
    /\ LET n == SliceQueries(m, inv[q].breadth)
           progress == Assign(inv[q].progress,
                              [totalQueries |-> n,
                               currentQuery |-> IF n > 0 THEN 1 ELSE 0])
       IN  /\ inv' = [inv EXCEPT ![q].status = "rejected",
                                 ![q].progress = progress]
           /\ snap' = Deliver(q, progress)
    /\ UNCHANGED <<limitN, world, br, sm, tp>>

\* onProgress throws e in the report of a branch: the branch's catch block
\* takes it, before the recursive call or the return of the branch's result
ExtractOkThrow(p, e) ==
    /\ br[p].state = "extract"
    /\ LET q == Parent(p)
           newBreadth == NewBreadth(inv[q].breadth)
           newDepth == NewDepth(inv[q].depth)
           done == NextCompleted(inv[q].progress)
           progress == IF newDepth > 0
                       THEN Assign(inv[q].progress,
                                   [currentDepth |-> newDepth,
                                    currentBreadth |-> newBreadth,
                                    completedQueries |-> done,
                                    currentQuery |-> Last(p)])
                       ELSE Assign(inv[q].progress,
                                   [currentDepth |-> 0,
                                    completedQueries |-> done,
                                    currentQuery |-> Last(p)])
       IN  /\ snap' = Deliver(q, progress)
           /\ inv' = [inv EXCEPT ![q].progress = progress]
           /\ br' = StartNext(
                        [br EXCEPT ![p] = FailedBranch(br[p], "observer", e)], q)
    /\ UNCHANGED <<limitN, world, sm, tp>>

ObserverNext ==
    \/ Next
    \/ \E q \in DOMAIN inv : \E m \in ProposerAnswers(q) : ProposeOkThrow(q, m)
    \/ \E p \in DOMAIN br : \E e \in world.thrown : ExtractOkThrow(p, e)

\* the runs whose observer may raise in any of its calls
ObserverSpec == Init /\ [][ObserverNext]_vars

----------------------------------------------------------------------------
(* The summary selection on its own: one search result, all its cases *)

\* texts around the 150-character cut, blank and not
LongLengths == {SummaryCut - 1, SummaryCut} \cup
               {SummaryCut + e : e \in 1..MaxExtra}

TextValues ==
    {<<>>, <<" ">>, <<"\n">>, <<"a">>, <<"a", "\n", "b">>, <<" ", "a", " ">>}
    \cup {Rep("a", n) : n \in LongLengths}
    \cup {Rep(" ", n) : n \in LongLengths}
    \cup {Rep("\n", n) \o <<"a">> : n \in LongLengths}

Texts == {None} \cup {Some(t) : t \in TextValues}

\* a result with or without a url, every field absent or one of the texts
SmItems ==
    {Item(u, t, d, m) : u \in {"", "u1"}, t \in Texts, d \in Texts,
                        m \in Texts}

SmInit ==
    /\ limitN = 1
    /\ world = World(<<>>, AiFail)
    /\ inv = (<<>> :> NewInvocation(1, 1, <<>>, <<>>))
    /\ br = [p \in {} |-> NewBranch]
    /\ snap = NoSnapshot
    /\ \E item \in SmItems : sm = [SmIdle EXCEPT !.pc = "start", !.item = item]
    /\ tp = TpIdle

\* async item => { ... } up to its first await, or to its return
SmSelect ==
    /\ sm.pc = "start"
    /\ sm' = IF ~HasUrl(sm.item) THEN [sm EXCEPT !.pc = "done"]
             ELSE IF SummaryArm(sm.item) = "ai"
             THEN [sm EXCEPT !.pc = "ai", !.aiCalls = 1]
             ELSE [sm EXCEPT !.pc = "done", !.kept = TRUE,
                             !.summary = DirectSummary(sm.item)]
    /\ UNCHANGED <<limitN, world, inv, br, snap, tp>>

\* the generation call settles
SmAiReturn(outcome) ==
    /\ sm.pc = "ai"
    /\ sm' = [sm EXCEPT !.pc = "done", !.kept = TRUE, !.ai = outcome,
                        !.summary = AiSummary(sm.item, outcome)]
    /\ UNCHANGED <<limitN, world, inv, br, snap, tp>>

SmNext ==
    \/ SmSelect
    \/ \E o \in AiOutcomes : SmAiReturn(o)

SummarySpec == SmInit /\ [][SmNext]_vars

----------------------------------------------------------------------------
(* trimPrompt: a text cut down to a budget of tokens *)

\* the words of a text: its maximal runs of characters that are not white
WordCount(t) ==
    Cardinality({i \in 1..Len(t) :
                    t[i] \notin WhiteSpace /\ (i = 1 \/ t[i - 1] \in WhiteSpace)})

\* the token counters of the model: one token per character, one per three
\* characters, one per word
Tokenizers == {"chars", "triples", "words"}

\* encoder.encode(prompt).length
TokenCount(tok, t) ==
    CASE tok = "chars" -> Len(t)
      [] tok = "triples" -> (Len(t) + 2) \div 3
      [] OTHER -> WordCount(t)

\* one token over the budget still passes
FitsBudgetLoose(length, contextSize) == length <= contextSize + 1

\* a text exactly at the budget does not pass
FitsBudgetStrict(length, contextSize) == length < contextSize

\* length <= contextSize
FitsBudget(length, contextSize) == length <= contextSize

\* overflowTokens = length - contextSize;
\* chunkSize = prompt.length - overflowTokens * 3
ChunkSize(prompt, length, contextSize) ==
    Len(prompt) - (length - contextSize) * 3

\* chunkSize < MinChunkSize
BelowFloor(chunkSize) == chunkSize < MinChunkSize

\* the first chunk always recursed on
NextPromptNoNet(prompt, trimmedPrompt, chunkSize) == trimmedPrompt

\* the text of the recursive call: the first chunk, or the raw slice when the
\* chunk is as long as the prompt
NextPrompt(prompt, trimmedPrompt, chunkSize) ==
    IF Len(trimmedPrompt) = Len(prompt) THEN Slice(prompt, chunkSize)
    ELSE trimmedPrompt

\* the splitters of the model: one that cuts at the character budget, one
\* that cuts before the last space within the budget and makes no progress on
\* a text without one, one that yields no chunk
Splitters == {"chars", "words", "none"}

\* the places within the first chunkSize characters where a word ends
Breaks(prompt, chunkSize) ==
    {i \in 1..Min(Len(prompt), chunkSize) : prompt[i] = " "}

\* splitter.splitText(prompt)[0] ?? ''
FirstChunk(split, prompt, chunkSize) ==
    CASE split = "chars" -> Slice(prompt, chunkSize)
      [] split = "words" ->
            IF Breaks(prompt, chunkSize) = {} THEN prompt
            ELSE LET k == CHOOSE i \in Breaks(prompt, chunkSize) :
                              \A j \in Breaks(prompt, chunkSize) : j <= i
                 IN  Slice(prompt, k - 1)
      [] OTHER -> <<>>

\* texts of one long word and texts of one-letter words
WordsText(n) == [i \in 1..n |-> IF i % 2 = 0 THEN " " ELSE "a"]

TrimLengths == {0, 1, MinChunkSize - 1, MinChunkSize} \cup
               {MinChunkSize + e : e \in 1..MaxTrimExtra}

TrimTexts == {Rep("a", n) : n \in TrimLengths} \cup
             {WordsText(n) : n \in TrimLengths}

\* budgets from 0 to one more than the text needs
Budgets(tokens) ==
    {0, 1, tokens + 1} \cup {b \in 0..tokens : tokens - b <= MaxOverflow}

TrimInit ==
    /\ limitN = 1
    /\ world = World(<<>>, AiFail)
    /\ inv = (<<>> :> NewInvocation(1, 1, <<>>, <<>>))
    /\ br = [p \in {} |-> NewBranch]
    /\ snap = NoSnapshot
    /\ sm = SmIdle
    /\ \E tok \in Tokenizers, split \in Splitters, t \in TrimTexts :
          \E b \in Budgets(TokenCount(tok, t)) :
              tp = [TpIdle EXCEPT !.pc = "call", !.tok = tok, !.split = split,
                                  !.orig = t, !.budget = b, !.text = t,
                                  !.run = 1]

\* a call of trimPrompt that returns: the empty prompt, the prompt within the
\* budget, or the prompt cut at the floor
TrimReturn ==
    /\ tp.pc = "call"
    /\ LET prompt == tp.text
           length == TokenCount(tp.tok, prompt)
           chunkSize == ChunkSize(prompt, length, tp.budget)
       IN  \/ /\ prompt = <<>>
              /\ tp' = [tp EXCEPT !.pc = "done", !.result = <<>>]
           \/ /\ prompt # <<>>
              /\ FitsBudget(length, tp.budget)
              /\ tp' = [tp EXCEPT !.pc = "done", !.result = prompt]
           \/ /\ prompt # <<>>
              /\ ~FitsBudget(length, tp.budget)
              /\ BelowFloor(chunkSize)
              /\ tp' = [tp EXCEPT !.pc = "done", !.floor = TRUE,
                                  !.result = Slice(prompt, MinChunkSize)]
    /\ UNCHANGED <<limitN, world, inv, br, snap, sm>>

\* a call of trimPrompt that splits the prompt and calls itself
TrimRecurse ==
    /\ tp.pc = "call"
    /\ LET prompt == tp.text
           length == TokenCount(tp.tok, prompt)
           chunkSize == ChunkSize(prompt, length, tp.budget)
           trimmedPrompt == FirstChunk(tp.split, prompt, chunkSize)
       IN  /\ prompt # <<>>
           /\ ~FitsBudget(length, tp.budget)
           /\ ~BelowFloor(chunkSize)
           /\ tp' = [tp EXCEPT
                        !.text = NextPrompt(prompt, trimmedPrompt, chunkSize),
                        !.net = tp.net \/ Len(trimmedPrompt) = Len(prompt)]
    /\ UNCHANGED <<limitN, world, inv, br, snap, sm>>

\* trimPrompt applied to its own result, with the same budget
TrimAgain ==
    /\ tp.pc = "done"
    /\ tp.run = 1
    /\ tp' = [tp EXCEPT !.pc = "call", !.run = 2, !.first = tp.result,
                        !.text = tp.result, !.floor = FALSE, !.net = FALSE]
    /\ UNCHANGED <<limitN, world, inv, br, snap, sm>>

TrimNext ==
    \/ TrimReturn
    \/ TrimRecurse
    \/ TrimAgain

\* trimPrompt is synchronous: a call that has started runs to its return
TrimSpec == TrimInit /\ [][TrimNext]_vars /\ WF_vars(TrimNext)

----------------------------------------------------------------------------
(* Properties *)

Root == <<>>
Range(s) == {s[i] : i \in 1..Len(s)}
Settled(q) == inv[q].status \in {"resolved", "rejected"}
InFlight == {p \in DOMAIN br : br[p].state \in InFlightStates}

C2_NoFailureEscapes ==
    world.thrown = Errors =>
        \A p \in DOMAIN br :
            /\ br[p].state # "rejected"
            /\ inv[Parent(p)].status # "rejected"

\* C3: depth bound.  Every invocation runs with depth >= 1, a recursive
\* invocation with depth one less than its parent's, and the number of nested
\* invocations (the length of the path plus one) never exceeds the top-level
\* depth; it reaches it when the run ends with no failed call and at least
\* one query proposed at every level.
C3_DepthBound ==
    /\ \A q \in DOMAIN inv :
          /\ inv[q].depth >= 1
          /\ Len(q) + 1 <= inv[Root].depth
          /\ q # Root => /\ Parent(q) \in DOMAIN inv
                         /\ inv[q].depth = inv[Parent(q)].depth - 1
    /\ ( /\ \A q \in DOMAIN inv : inv[q].status = "resolved" /\ inv[q].nq >= 1
         /\ \A p \in DOMAIN br : br[p].failed = "none" )
       => \E q \in DOMAIN inv : Len(q) + 1 = inv[Root].depth

\* a finished run of depth 2 or more whose deepest invocation is at the
\* top-level depth
C3_Witness ==
    /\ inv[Root].depth >= 2
    /\ inv[Root].status = "resolved"
    /\ \A p \in DOMAIN br : br[p].failed = "none"
    /\ \E q \in DOMAIN inv :
          /\ Len(q) + 1 = inv[Root].depth
          /\ inv[q].depth = 1
          /\ inv[q].status = "resolved"
          /\ inv[q].nq >= 1

\* C4: termination.  When every external call returns or fails, the
\* top-level invocation settles and no task is left waiting for a slot or
\* for a call.
C4_Terminates ==
    <>(/\ Settled(Root)
       /\ \A q \in DOMAIN inv : Settled(q)
       /\ \A p \in DOMAIN br : br[p].state \in {"done", "rejected"})

\* a branch holds the only slot of its invocation's gate while it awaits its
\* recursive invocation, and a branch of that invocation has been started
C4_Witness ==
    /\ limitN = 1
    /\ \E p \in DOMAIN br :
          /\ br[p].state = "recursing"
          /\ \E c \in BranchesOf(br, p) : br[c].state \in InFlightStates

\* C5 as stated: over the whole recursion tree, at most limitN branches are
\* in flight.
C5_GlobalGate == Cardinality(InFlight) <= limitN

\* C5, amended: among the branches of one invocation, at most limitN are in
\* flight.
C5_GatePerInvocation ==
    \A q \in DOMAIN inv : ActiveCount(br, q) <= limitN

\* the gate of an invocation is full and holds a branch back
C5_Witness ==
    \E q \in DOMAIN inv :
        /\ ActiveCount(br, q) = limitN
        /\ \E p \in BranchesOf(br, q) : br[p].state = "queued"

\* C6: the visited sources an invocation returns hold no two entries with
\* the same url and the same summary.
C6_OneEntryPerSource ==
    \A q \in DOMAIN inv :
        inv[q].status = "resolved" =>
            \A i, j \in 1..Len(inv[q].result.visitedUrls) :
                ( /\ inv[q].result.visitedUrls[i].url
                        = inv[q].result.visitedUrls[j].url
                  /\ inv[q].result.visitedUrls[i].summary
                        = inv[q].result.visitedUrls[j].summary )
                => i = j

\* the text t cut to its first 150 characters, '...' added when it was longer
CutText(t) ==
    IF Len(t) > 150 THEN SubSeq(t, 1, 150) \o <<".", ".", ".">> ELSE t
Spaced(t) == [i \in 1..Len(t) |-> IF t[i] = "\n" THEN " " ELSE t[i]]
AllWhite(t) == \A i \in 1..Len(t) : t[i] \in {" ", "\n"}
NonEmpty(f) == f.has /\ f.val # <<>>
Filled(f) == f.has /\ ~AllWhite(f.val)

\* C7: summary non-emptiness.  A result with a url yields a source whose
\* summary has a character that is not white space, whatever its title,
\* description and markdown are and however the generation call ends; a
\* result without a url yields no source and no generation call.
C7_SummaryNonEmpty ==
    /\ sm.pc = "ai" => HasUrl(sm.item)
    /\ sm.pc = "done" =>
          IF sm.item.url # ""
          THEN sm.kept /\ sm.summary # <<>> /\ ~AllWhite(sm.summary)
          ELSE ~sm.kept /\ sm.aiCalls = 0

\* a result with a url, a white-space title, no description and some markdown
\* whose generated summary came back empty: the sentinel is its summary
C7_Witness ==
    /\ sm.pc = "done"
    /\ sm.item.url # ""
    /\ sm.item.title = Some(<<" ">>)
    /\ ~sm.item.description.has
    /\ NonEmpty(sm.item.markdown)
    /\ sm.aiCalls = 1
    /\ sm.ai = AiOk(<<>>)
    /\ sm.summary = Sentinel

\* C8 as stated: the chain keyed on non-empty fields, the third arm giving the
\* generated summary or, on failure, the cut markdown.
C8_ChainAsStated ==
    (sm.pc = "done" /\ sm.item.url # "") =>
        IF NonEmpty(sm.item.title)
        THEN sm.summary = sm.item.title.val /\ sm.aiCalls = 0
        ELSE IF NonEmpty(sm.item.description)
        THEN sm.summary = CutText(sm.item.description.val) /\ sm.aiCalls = 0
        ELSE IF NonEmpty(sm.item.markdown)
        THEN /\ sm.aiCalls = 1
             /\ sm.summary = IF sm.ai.ok THEN sm.ai.val
                             ELSE CutText(Spaced(sm.item.markdown.val))
        ELSE sm.summary = Sentinel /\ sm.aiCalls = 0

\* C8, amended: title and description count when they hold a character that
\* is not white space, and the third arm gives the sentinel when the
\* generated summary, or the cut markdown after a failure, is empty or all
\* white space.
C8_PriorityChain ==
    (sm.pc = "done" /\ sm.item.url # "") =>
        IF Filled(sm.item.title)
        THEN sm.summary = sm.item.title.val /\ sm.aiCalls = 0
        ELSE IF Filled(sm.item.description)
        THEN sm.summary = CutText(sm.item.description.val) /\ sm.aiCalls = 0
        ELSE IF NonEmpty(sm.item.markdown)
        THEN LET text == IF sm.ai.ok THEN sm.ai.val
                         ELSE CutText(Spaced(sm.item.markdown.val))
             IN  /\ sm.aiCalls = 1
                 /\ sm.kept
                 /\ sm.summary = IF AllWhite(text) THEN Sentinel ELSE text
        ELSE sm.summary = Sentinel /\ sm.aiCalls = 0

\* a result with a title, a long description and long markdown: the title is
\* the summary, verbatim, and no generation call was made
C8_Witness ==
    /\ sm.pc = "done"
    /\ sm.item.url # ""
    /\ sm.item.title = Some(<<"a", "\n", "b">>)
    /\ Len(sm.item.description.val) > 150
    /\ Len(sm.item.markdown.val) > 150
    /\ sm.summary = <<"a", "\n", "b">>
    /\ sm.aiCalls = 0

\* C9: every snapshot the observer receives is the state of the progress of
\* the top-level call: its totalDepth and totalBreadth are the top-level depth
\* and breadth.
C9_SingleProgress ==
    snap.has => /\ snap.p.totalDepth = inv[Root].depth
                /\ snap.p.totalBreadth = inv[Root].breadth

\* how many results of a search have a url
UrlCount == Cardinality({k \in 1..Len(world.pages) : world.pages[k].url # ""})

BaseRunDone ==
    /\ inv[Root].depth = 1
    /\ inv[Root].status = "resolved"
    /\ \A p \in DOMAIN br : br[p].failed = "none"

BaseRunCounts ==
    /\ snap.has
    /\ snap.p.totalQueries = inv[Root].nq
    /\ snap.p.completedQueries = inv[Root].nq
    /\ snap.p.currentDepth = 0
    /\ Len(inv[Root].result.visitedUrls) = inv[Root].nq * UrlCount

\* C10 as stated: a depth-1 run of n queries with no failed call ends with
\* the last snapshot at totalQueries = completedQueries = n, currentDepth = 0,
\* and one source per result that has a url.
C10_AsStated == BaseRunDone => BaseRunCounts

\* C10, amended: the same for n >= 1.
C10_BaseLevelProgress == (BaseRunDone /\ inv[Root].nq >= 1) => BaseRunCounts

\* breadth 2, two queries, one titled url each, two tasks run at once:
\* two sources with the title as summary and completedQueries = 2
C10_Witness ==
    /\ BaseRunDone
    /\ limitN = 2
    /\ inv[Root].breadth = 2
    /\ inv[Root].nq = 2
    /\ world.pages = <<TitledPage>>
    /\ snap.p.completedQueries = 2
    /\ Len(inv[Root].result.visitedUrls) = 2
    /\ \A i \in 1..2 : inv[Root].result.visitedUrls[i].summary = Example

\* C11: a failure of the observer does not propagate.  No branch loses its
\* result because onProgress raised in its report, and no invocation whose
\* proposer answered rejects: the run returns what it returns when the
\* observer does not raise.
C11_ObserverContained ==
    /\ \A p \in DOMAIN br : br[p].failed # "observer"
    /\ \A q \in DOMAIN inv :
          ~(/\ inv[q].status = "rejected"
            /\ inv[q].progress.totalQueries >= 1
            /\ BranchesOf(br, q) = {})

\* C12: trimPrompt terminates and is bounded.  For every text, budget, token
\* counter and splitter, the call returns, and so does the call on its result;
\* every recursive call receives a strictly shorter text; the result is
\* within the budget of tokens or no longer than 140 characters.
C12_TrimTerminates ==
    /\ <>(tp.pc = "done" /\ tp.run = 2)
    /\ [][(tp.pc = "call" /\ tp'.pc = "call" /\ tp'.run = tp.run)
              => Len(tp'.text) < Len(tp.text)]_vars
    /\ [](tp.pc = "done" =>
              \/ TokenCount(tp.tok, tp.result) <= tp.budget
              \/ Len(tp.result) <= MinChunkSize)

\* a text of one long word, over the budget: the splitter made no progress,
\* the raw slice was recursed on and the result is within the budget
C12_Witness ==
    /\ tp.pc = "done"
    /\ tp.run = 1
    /\ tp.net
    /\ tp.split = "words"
    /\ Len(tp.result) > MinChunkSize
    /\ Len(tp.result) < Len(tp.orig)
    /\ TokenCount(tp.tok, tp.result) <= tp.budget

\* C13 as stated: the result of trimPrompt never counts more tokens than the
\* budget, the text cut at the 140-character floor included.
C13_AsStated ==
    tp.pc = "done" => TokenCount(tp.tok, tp.result) <= tp.budget

\* C13, amended: the result counts no more tokens than the budget unless it
\* is the text cut at the 140-character floor.
C13_TokenBound ==
    (tp.pc = "done" /\ ~tp.floor) =>
        TokenCount(tp.tok, tp.result) <= tp.budget

\* a text over the budget was cut, not at the floor, to a shorter text that
\* is exactly at the budget
C13_Witness ==
    /\ tp.pc = "done"
    /\ tp.run = 1
    /\ ~tp.floor
    /\ TokenCount(tp.tok, tp.orig) > tp.budget
    /\ tp.result # <<>>
    /\ Len(tp.result) < Len(tp.orig)
    /\ TokenCount(tp.tok, tp.result) = tp.budget

\* C14: idempotence.  A text within the budget is returned unchanged, the
\* empty text gives the empty text for every budget, and trimPrompt applied
\* to its own result returns that result whenever it is within the budget.
C14_Idempotent ==
    /\ (tp.pc = "done" /\ tp.run = 1) =>
          /\ TokenCount(tp.tok, tp.orig) <= tp.budget => tp.result = tp.orig
          /\ tp.orig = <<>> => tp.result = <<>>
    /\ (tp.pc = "done" /\ tp.run = 2) =>
          (TokenCount(tp.tok, tp.first) <= tp.budget => tp.result = tp.first)

\* a text that was cut to a shorter one within the budget, and the second
\* application returned the same text
C14_Witness ==
    /\ tp.pc = "done"
    /\ tp.run = 2
    /\ tp.first # <<>>
    /\ Len(tp.first) < Len(tp.orig)
    /\ TokenCount(tp.tok, tp.first) <= tp.budget
    /\ tp.result = tp.first

\* the branches whose search or learnings-extraction call is in flight
Calling == {p \in DOMAIN br : br[p].state \in {"search", "extract"}}

\* C15: sequential depth-first execution under the default gate.  With
\* ConcurrencyLimit = 1 at most one search or learnings-extraction call is in
\* flight over the whole run, and a branch of an invocation is started only
\* when every earlier branch of that invocation has returned and the whole
\* tree of invocations below it has settled.
C15_SequentialCalls ==
    limitN = 1 =>
        /\ Cardinality(Calling) <= 1
        /\ \A p \in DOMAIN br :
              br[p].state # "queued" =>
                  \A o \in DOMAIN br :
                      ( /\ Len(o) > Len(p)
                        /\ SubSeq(o, 1, Len(p) - 1) = Parent(p)
                        /\ o[Len(p)] < Last(p) )
                      => br[o].state \in {"done", "rejected"}

\* C16: monotone progress.  Over the snapshots the observer receives during
\* one top-level run, completedQueries never decreases, and a snapshot that
\* reports a completed branch shows it one higher than the snapshot before.
C16_MonotoneCompleted ==
    [][(snap.has /\ snap'.has /\ snap' # snap) =>
          /\ snap'.p.completedQueries >= snap.p.completedQueries
          /\ snap'.p.completedQueries <= snap.p.completedQueries + 1]_vars

\* a / b rounded up
CeilDiv(a, b) == (a + b - 1) \div b

RECURSIVE Pow2(_)
Pow2(j) == IF j = 0 THEN 1 ELSE 2 * Pow2(j - 1)

\* the product over j = 0..k of ceil(B / 2^j)
RECURSIVE LevelProduct(_, _)
LevelProduct(B, k) ==
    IF k = 0 THEN B ELSE LevelProduct(B, k - 1) * CeilDiv(B, Pow2(k))

\* the sum over k = 0..D-1 of LevelProduct(B, k)
RECURSIVE FanOutBound(_, _)
FanOutBound(B, D) ==
    IF D = 0 THEN 0 ELSE FanOutBound(B, D - 1) + LevelProduct(B, D - 1)

\* the firecrawl.search calls of the run so far
RECURSIVE SumSearches(_)
SumSearches(P) ==
    IF P = {} THEN 0
    ELSE LET p == CHOOSE x \in P : TRUE
         IN  br[p].searches + SumSearches(P \ {p})

\* C17: fan-out bound.  An invocation with breadth b has at most b branches;
\* a recursive invocation runs with breadth ceil(b / 2) >= 1, which is
\* ceil(B / 2^k) at level k; every started branch has made exactly one search
\* call and a queued one none; the search calls of a run with breadth B and
\* depth D number at most the sum over k = 0..D-1 of the product over
\* j = 0..k of ceil(B / 2^j).
C17_FanOutBound ==
    /\ \A q \in DOMAIN inv :
          /\ inv[q].nq <= inv[q].breadth
          /\ Cardinality(BranchesOf(br, q)) <= inv[q].breadth
          /\ inv[q].breadth >= 1
          /\ q # Root => inv[q].breadth = CeilDiv(inv[Parent(q)].breadth, 2)
          /\ inv[q].breadth = CeilDiv(inv[Root].breadth, Pow2(Len(q)))
    /\ \A p \in DOMAIN br :
          br[p].searches = IF br[p].state = "queued" THEN 0 ELSE 1
    /\ SumSearches(DOMAIN br)
          <= FanOutBound(inv[Root].breadth, inv[Root].depth)

\* a finished run of depth 2 that made as many search calls as the bound
\* allows, one of them in a recursive invocation
C17_Witness ==
    /\ inv[Root].depth = 2
    /\ inv[Root].status = "resolved"
    /\ \E q \in DOMAIN inv : q # Root /\ inv[q].nq = inv[q].breadth
    /\ SumSearches(DOMAIN br)
          = FanOutBound(inv[Root].breadth, inv[Root].depth)

\* the index of the first occurrence of x in s
FirstIndex(s, x) == CHOOSE i \in 1..Len(s) : s[i] = x /\ \A j \in 1..(i - 1) : s[j] # x

\* C18: learnings returned without repetition, in order.  The learnings an
\* invocation returns hold no string twice; they are the strings of its
\* branches' results, each one kept, in the order of their first occurrence
\* over the branches taken in query order.
C18_LearningsDeduped ==
    \A q \in DOMAIN inv :
        inv[q].status = "resolved" =>
            LET r == inv[q].result.learnings
                flat == FlatResults(br, q, inv[q].nq).learnings
            IN  /\ \A i, j \in 1..Len(r) : r[i] = r[j] => i = j
                /\ Range(r) = Range(flat)
                /\ \A i, j \in 1..Len(r) :
                      i < j => FirstIndex(flat, r[i]) < FirstIndex(flat, r[j])

\* an invocation whose branches brought back the same learning more than
\* once and a second learning after it: two learnings returned
C18_Witness ==
    \E q \in DOMAIN inv :
        /\ inv[q].status = "resolved"
        /\ Len(inv[q].result.learnings) = 2
        /\ Len(FlatResults(br, q, inv[q].nq).learnings) = 4

\* what invocation q was given is in what it returned
KeepsInherited(q) ==
    /\ Range(inv[q].learnings) \subseteq Range(inv[q].result.learnings)
    /\ Range(inv[q].visitedUrls) \subseteq Range(inv[q].result.visitedUrls)

\* C19 as stated: whatever calls fail and however many queries the proposer
\* returns, zero included, the learnings and visited sources an invocation
\* returns contain those it was given.
C19_NeverLost ==
    \A q \in DOMAIN inv : inv[q].status = "resolved" => KeepsInherited(q)

\* C19, amended: the learnings and visited sources an invocation returns
\* contain those it was given whenever one of its branches returned a result
\* that is not empty.
C19_KeptWithOneBranch ==
    \A q \in DOMAIN inv :
        ( /\ inv[q].status = "resolved"
          /\ \E p \in BranchesOf(br, q) : br[p].result # EmptyResult )
        => KeepsInherited(q)

\* a recursive invocation that was given a learning and a source and returned
\* them together with a source of its own
C19_Witness ==
    \E q \in DOMAIN inv :
        /\ q # Root
        /\ inv[q].status = "resolved"
        /\ inv[q].learnings # <<>>
        /\ inv[q].visitedUrls # <<>>
        /\ KeepsInherited(q)
        /\ Len(inv[q].result.visitedUrls) > Len(inv[q].visitedUrls)

\* the branches of q that reached the step where a branch recurses or returns
Reached(q) ==
    {p \in BranchesOf(br, q) :
        br[p].failed \notin {"search", "extract"}
            /\ br[p].state \in {"recursing", "done", "rejected"}}

\* C20: progress counter consistency.  In every snapshot delivered,
\* 0 <= completedQueries <= totalQueries; the completedQueries of an
\* invocation's progress is the number of its branches that reached the step
\* where a branch recurses or returns, so a branch whose search or extraction
\* call failed does not count, and when the invocation has finished the
\* counts agree.
C20_CountersConsistent ==
    /\ snap.has => /\ 0 <= snap.p.completedQueries
                   /\ snap.p.completedQueries <= snap.p.totalQueries
    /\ \A q \in DOMAIN inv :
          /\ inv[q].progress.completedQueries = Cardinality(Reached(q))
          /\ inv[q].status \in {"running", "resolved"} =>
                inv[q].progress.totalQueries = inv[q].nq

\* a finished invocation of two branches, one failed in its search call and
\* one completed: completedQueries is 1 of totalQueries 2
C20_Witness ==
    \E q \in DOMAIN inv :
        /\ inv[q].status = "resolved"
        /\ inv[q].progress.totalQueries = 2
        /\ inv[q].progress.completedQueries = 1
        /\ \E p \in BranchesOf(br, q) : br[p].failed = "search"
        /\ \E p \in BranchesOf(br, q) : br[p].failed = "none"

====
